---------------------------- MODULE Spec2Model ----------------------------
(***************************************************************************)
(* Model of DATA/counts_diffexpress/all_genes/sense_plot.py: the main      *)
(* guard, generate_html_dashboard and calculate_log2_tpm.                  *)
(*                                                                         *)
(* Representation.                                                         *)
(*  - A column name is a string; Chars gives its characters, and what the  *)
(*    code cuts out of one (a condition) is a sequence of one-character    *)
(*    strings.  A Geneid is an opaque ordered token (a natural number, its *)
(*    order standing for the order pandas sorts the ids in).               *)
(*  - A float is an exact non-negative rational [k |-> "num", n, d] in     *)
(*    lowest terms, or inf, or nan; the IEEE rules for x/0, 0/0, inf/inf   *)
(*    and the pandas rule that sum/mean/std skip nan are modelled.         *)
(*    Rounding of doubles is not modelled.                                 *)
(*  - np.log2, mean and std are kept as terms over their exact arguments   *)
(*    ([k |-> "log2", ...], [k |-> "mean", of |-> ...]).                   *)
(***************************************************************************)
EXTENDS Integers, Sequences, FiniteSets

VARIABLES
    pc,          \* the program point about to execute
    exists,      \* what os.path.exists(input_filename) answers
    file,        \* the content of the input file (the count matrix)
    calls,       \* the calls of generate_html_dashboard made: its arguments
    out,         \* what has been printed
    steps,       \* the pipeline steps executed so far, in order
    df,          \* the loaded frame
    result_df,   \* calculate_log2_tpm(df)
    tpm,         \* the tpm table inside calculate_log2_tpm (its local)
    plot_data,   \* the long-format frame with its Condition column
    stats,       \* the statistics frame
    unique_genes,\* stats['Geneid'].unique()
    fig_data,    \* fig.data: the traces
    buttons,     \* the dropdown buttons
    layout,      \* fig.layout as set by update_layout
    html         \* the HTML files written: <<filename, figure>>

vars == <<pc, exists, file, calls, out, steps, df, result_df, tpm, plot_data,
          stats, unique_genes, fig_data, buttons, layout, html>>

None == [k |-> "none"]

(***************************************************************************)
(* Bounds of the model.                                                    *)
(***************************************************************************)
MaxGenes == 2       \* gene rows of an input matrix
MaxLength == 2      \* Length values 0..MaxLength (calculate_log2_tpm inputs)
MaxCount == 1       \* counts 0..MaxCount (calculate_log2_tpm inputs)

(***************************************************************************)
(* Program constants.                                                      *)
(***************************************************************************)
num_to_show == 200
num_traces_per_gene == 2
FirstCountColumn == 6
BasesPerKb == 1000
Million == 1000000

input_filename == "sense_read_counts"
output_filename == "expression_dashboard.html"

(***************************************************************************)
(* Sequences.                                                              *)
(***************************************************************************)
Reverse(s) == [i \in 1..Len(s) |-> s[Len(s) + 1 - i]]

Range(s) == {s[i] : i \in 1..Len(s)}

RECURSIVE Concat(_)
Concat(ss) == IF ss = <<>> THEN <<>> ELSE Head(ss) \o Concat(Tail(ss))

Min(a, b) == IF a <= b THEN a ELSE b

(***************************************************************************)
(* Floats: exact rationals with inf and nan.                               *)
(***************************************************************************)
RECURSIVE GCD(_, _)
GCD(a, b) == IF b = 0 THEN a ELSE GCD(b, a % b)

NaN == [k |-> "nan", n |-> 0, d |-> 0]
Inf == [k |-> "inf", n |-> 1, d |-> 0]
Num(n, d) == LET g == GCD(n, d) IN [k |-> "num", n |-> n \div g, d |-> d \div g]
IntF(i) == [k |-> "num", n |-> i, d |-> 1]

IsNaN(a) == a.k = "nan"

\* a / b for non-negative a, b
FDiv(a, b) ==
    IF IsNaN(a) \/ IsNaN(b) THEN NaN
    ELSE IF a.k = "inf" THEN (IF b.k = "inf" THEN NaN ELSE Inf)
    ELSE IF b.k = "inf" THEN IntF(0)
    ELSE IF b.n = 0 THEN (IF a.n = 0 THEN NaN ELSE Inf)
    ELSE LET g1 == GCD(a.n, b.n)
             g2 == GCD(a.d, b.d)
             nn == IF g1 = 0 THEN 0 ELSE (a.n \div g1) * (b.d \div g2)
             dd == IF g1 = 0 THEN 1 ELSE (a.d \div g2) * (b.n \div g1)
         IN  Num(nn, dd)

\* a + b for non-negative a, b
FAdd(a, b) ==
    IF IsNaN(a) \/ IsNaN(b) THEN NaN
    ELSE IF a.k = "inf" \/ b.k = "inf" THEN Inf
    ELSE LET l == (a.d \div GCD(a.d, b.d)) * b.d
         IN  Num(a.n * (l \div a.d) + b.n * (l \div b.d), l)

\* Series.sum(): nan entries are skipped (skipna), an empty sum is 0.  The
\* sum is exact, so the order of the additions does not matter: the sequence
\* is halved to keep the evaluation shallow.
RECURSIVE FSum(_)
FSum(s) ==
    IF s = <<>> THEN IntF(0)
    ELSE IF Len(s) = 1 THEN (IF IsNaN(s[1]) THEN IntF(0) ELSE s[1])
    ELSE LET h == Len(s) \div 2
         IN  FAdd(FSum(SubSeq(s, 1, h)), FSum(SubSeq(s, h + 1, Len(s))))

\* np.log2(x): a term over its exact argument; log2(nan) = nan
Log2(a) == IF IsNaN(a) THEN NaN ELSE [k |-> "log2", n |-> a.n, d |-> a.d]


(***************************************************************************)
(* Strings.  Chars gives the characters of every column name the inputs    *)
(* use; Ord is the code point order of the characters that occur.          *)
(***************************************************************************)
Chars ==
    [d7_a |-> <<"d", "7", "_", "a">>,
     d7_b |-> <<"d", "7", "_", "b">>,
     d11_a |-> <<"d", "1", "1", "_", "a">>,
     d04 |-> <<"d", "0", "4">>,
     r2d11_a_b |-> <<"r", "2", "d", "1", "1", "_", "a", "_", "b">>,
     x_r |-> <<"x", "_", "r">>]

Digits == <<"0", "1", "2", "3", "4", "5", "6", "7", "8", "9">>

Alphabet == Digits \o <<"_", "a", "b", "d", "r", "x">>

Ord(c) == CHOOSE i \in 1..Len(Alphabet) : Alphabet[i] = c

IsDigit(c) == c \in Range(Digits)

DigitValue(c) == Ord(c) - 1

\* s < t in the lexicographic order of the code points
RECURSIVE StrLess(_, _)
StrLess(s, t) ==
    IF t = <<>> THEN FALSE
    ELSE IF s = <<>> THEN TRUE
    ELSE IF Head(s) # Head(t) THEN Ord(Head(s)) < Ord(Head(t))
    ELSE StrLess(Tail(s), Tail(t))

\* str.split(sep): the pieces between the occurrences of sep
RECURSIVE SplitAcc(_, _, _)
SplitAcc(s, sep, cur) ==
    IF s = <<>> THEN <<cur>>
    ELSE IF Head(s) = sep THEN <<cur>> \o SplitAcc(Tail(s), sep, <<>>)
    ELSE SplitAcc(Tail(s), sep, Append(cur, Head(s)))

Split(s, sep) == SplitAcc(s, sep, <<>>)

\* int(s) of a string of digits
RECURSIVE ParseIntAcc(_, _)
ParseIntAcc(s, acc) ==
    IF s = <<>> THEN acc ELSE ParseIntAcc(Tail(s), 10 * acc + DigitValue(Head(s)))

ParseInt(s) == ParseIntAcc(s, 0)

\* the leftmost, longest match of \d+ in s; None when s holds no digit
RECURSIVE TakeDigits(_)
TakeDigits(s) ==
    IF s = <<>> \/ ~IsDigit(Head(s)) THEN <<>>
    ELSE <<Head(s)>> \o TakeDigits(Tail(s))

RECURSIVE FirstDigitRun(_)
FirstDigitRun(s) ==
    IF s = <<>> THEN None
    ELSE IF IsDigit(Head(s)) THEN [k |-> "match", group |-> TakeDigits(s)]
    ELSE FirstDigitRun(Tail(s))

(***************************************************************************)
(* Frames.  A frame is [columns, rows]: the column names and, per row, the *)
(* cells in column order.                                                  *)
(***************************************************************************)
MetaColumns == <<"Geneid", "Chr", "Start", "End", "Strand", "Length">>

ColumnIndex(frame, name) ==
    CHOOSE i \in 1..Len(frame.columns) : frame.columns[i] = name

\* frame[name]: the column as a sequence, one entry per row
Column(frame, name) ==
    LET i == ColumnIndex(frame, name)
    IN  [r \in 1..Len(frame.rows) |-> frame.rows[r][i]]

\* frame.iloc[:, from:] with from counted from 0
ILocColumnsFrom(frame, from) ==
    [columns |-> SubSeq(frame.columns, from + 1, Len(frame.columns)),
     rows |-> [r \in 1..Len(frame.rows) |->
                  SubSeq(frame.rows[r], from + 1, Len(frame.rows[r]))]]

NCols(frame) == Len(frame.columns)
NRows(frame) == Len(frame.rows)

(***************************************************************************)
(* calculate_log2_tpm                                                      *)
(***************************************************************************)
\* rpk = counts.div(lengths / 1000, axis=0): row r is divided by lengths[r]
Rpk(counts, lengths) ==
    [columns |-> counts.columns,
     rows |-> [r \in 1..NRows(counts) |->
                 [c \in 1..NCols(counts) |->
                    FDiv(IntF(counts.rows[r][c]),
                         FDiv(IntF(lengths[r]), IntF(BasesPerKb)))]]]

\* a bug: the sum runs along the row (axis=1) instead of down the column
ScalingFactorsAxis1(rpk) ==
    [c \in 1..NCols(rpk) |->
        FDiv(FSum(IF c <= NRows(rpk) THEN rpk.rows[c] ELSE <<>>), IntF(Million))]

\* scaling_factors = rpk.sum(axis=0) / 1e6: one factor per column
ScalingFactors(rpk) ==
    [c \in 1..NCols(rpk) |->
        FDiv(FSum([r \in 1..NRows(rpk) |-> rpk.rows[r][c]]), IntF(Million))]

\* tpm = rpk.div(scaling_factors, axis=1): column c is divided by factor c
Tpm(rpk) ==
    LET scaling_factors == ScalingFactors(rpk)
    IN  [columns |-> rpk.columns,
         rows |-> [r \in 1..NRows(rpk) |->
                     [c \in 1..NCols(rpk) |->
                        FDiv(rpk.rows[r][c], scaling_factors[c])]]]

TpmOf(frame) ==
    Tpm(Rpk(ILocColumnsFrom(frame, FirstCountColumn), Column(frame, "Length")))

\* log2_tpm = np.log2(tpm + 1); log2_tpm.insert(0, 'Geneid', gene_ids)
calculate_log2_tpm(frame) ==
    LET gene_ids == Column(frame, "Geneid")
        t == TpmOf(frame)
    IN  [columns |-> <<"Geneid">> \o t.columns,
         rows |-> [r \in 1..NRows(t) |->
                     <<gene_ids[r]>> \o
                     [c \in 1..NCols(t) |-> Log2(FAdd(t.rows[r][c], IntF(1)))]]]

(***************************************************************************)
(* generate_html_dashboard: the long format and the statistics             *)
(***************************************************************************)
\* a sequence with every entry evaluated
Force(s) == s \o <<>>

\* result_df.melt(id_vars=['Geneid'], var_name='Sample', value_name='log2TPM'):
\* one row per value column and frame row, the columns in order and, within
\* a column, the rows in order
Melt(frame) ==
    LET id == ColumnIndex(frame, "Geneid")
        value_columns == SelectSeq([c \in 1..NCols(frame) |-> c], LAMBDA c : c # id)
    IN  Concat([v \in 1..Len(value_columns) |->
                  [r \in 1..NRows(frame) |->
                     [Geneid |-> frame.rows[r][id],
                      Sample |-> frame.columns[value_columns[v]],
                      log2TPM |-> frame.rows[r][value_columns[v]]]]])

\* a bug: the part after the last underscore is dropped, not all after the first
ConditionOfLast(sample) ==
    LET parts == Split(Chars[sample], "_")
    IN  IF Len(parts) = 1 THEN parts[1]
        ELSE Concat([i \in 1..(2 * Len(parts) - 3) |->
                        IF i % 2 = 1 THEN parts[(i + 1) \div 2] ELSE <<"_">>])

\* sample.split('_')[0]
ConditionOf(sample) == Split(Chars[sample], "_")[1]

\* plot_data['Condition'] = plot_data['Sample'].str.split('_').str[0]
WithCondition(rows) ==
    [i \in 1..Len(rows) |->
        [Geneid |-> rows[i].Geneid, Sample |-> rows[i].Sample,
         log2TPM |-> rows[i].log2TPM, Condition |-> ConditionOf(rows[i].Sample)]]

\* the order of the group keys (Geneid, Condition): by Geneid, then by the
\* Condition string
KeyLess(a, b) ==
    \/ a[1] < b[1]
    \/ a[1] = b[1] /\ StrLess(a[2], b[2])

\* the keys of the finite set S in increasing order
SortedKeys(S) ==
    LET n == Cardinality(S)
        rank(x) == 1 + Cardinality({y \in S : KeyLess(y, x)})
    IN  Force([p \in 1..n |-> CHOOSE x \in S : rank(x) = p])

\* Series.mean() of a group: nan entries are skipped, nan when none is left
Mean(values) ==
    LET present == SelectSeq(values, LAMBDA v : ~IsNaN(v))
    IN  IF present = <<>> THEN NaN ELSE [k |-> "mean", of |-> present]

\* Series.std() of a group (ddof=1): nan entries are skipped, nan when fewer
\* than two are left
Std(values) ==
    LET present == SelectSeq(values, LAMBDA v : ~IsNaN(v))
    IN  IF Len(present) < 2 THEN NaN ELSE [k |-> "std", of |-> present]

\* plot_data.groupby(['Geneid', 'Condition'])['log2TPM'].agg(['mean', 'std'])
\* .reset_index(): one row per key that occurs, the keys sorted
GroupByAgg(rows) ==
    LET keys == {<<rows[i].Geneid, rows[i].Condition>> : i \in 1..Len(rows)}
        sorted == SortedKeys(keys)
        group(key) == SelectSeq(rows, LAMBDA r : <<r.Geneid, r.Condition>> = key)
        values(key) == LET g == group(key) IN [i \in 1..Len(g) |-> g[i].log2TPM]
    IN  [i \in 1..Len(sorted) |->
            [Geneid |-> sorted[i][1], Condition |-> sorted[i][2],
             mean |-> Mean(values(sorted[i])), std |-> Std(values(sorted[i]))]]

\* one entry of stats['Condition'].str.extract('(\d+)'): group 1 of the first
\* match, nan when there is no match
ExtractDay(condition) ==
    LET m == FirstDigitRun(condition)
    IN  IF m.k = "none" THEN NaN ELSE IntF(ParseInt(m.group))

\* .astype(int) raises on a nan entry
AsTypeIntRaises(column) == \E i \in 1..Len(column) : IsNaN(column[i])

\* stats['Day'] = stats['Condition'].str.extract('(\d+)').astype(int)
WithDay(rows) ==
    [i \in 1..Len(rows) |->
        [Geneid |-> rows[i].Geneid, Condition |-> rows[i].Condition,
         mean |-> rows[i].mean, std |-> rows[i].std,
         Day |-> ExtractDay(rows[i].Condition).n]]

\* a bug: the rows are ordered by the Condition string
RowLessByCondition(a, b) ==
    \/ a.Geneid < b.Geneid
    \/ a.Geneid = b.Geneid /\ StrLess(a.Condition, b.Condition)

\* the order of sort_values(['Geneid', 'Day'])
RowLess(a, b) ==
    \/ a.Geneid < b.Geneid
    \/ a.Geneid = b.Geneid /\ a.Day < b.Day

\* stats.sort_values(['Geneid', 'Day']): a stable sort (rows that tie keep
\* their order)
SortValues(rows) ==
    LET n == Len(rows)
        rank == Force([i \in 1..n |->
                    1 + Cardinality({j \in 1..n :
                          \/ RowLess(rows[j], rows[i])
                          \/ ~RowLess(rows[i], rows[j]) /\ j < i})])
    IN  Force([p \in 1..n |-> rows[CHOOSE i \in 1..n : rank[i] = p]])

(***************************************************************************)
(* generate_html_dashboard: the figure                                     *)
(***************************************************************************)
\* Series.unique(): the distinct values in order of first appearance
Unique(s) ==
    LET first == SelectSeq([i \in 1..Len(s) |-> i],
                           LAMBDA i : \A j \in 1..(i - 1) : s[j] # s[i])
    IN  Force([i \in 1..Len(first) |-> s[first[i]]])

\* seq[:n]
Take(seq, n) == SubSeq(seq, 1, Min(Len(seq), n))

\* stats['Geneid'].unique()
UniqueGenes(rows) == Unique([i \in 1..Len(rows) |-> rows[i].Geneid])

\* a bug: the slice is one too long
ShownGenesOneMore(genes) == Take(genes, num_to_show + 1)

\* unique_genes[:num_to_show]
ShownGenes(genes) == Take(genes, num_to_show)

\* stats[stats['Geneid'] == gene]
GeneStats(rows, gene) == SelectSeq(rows, LAMBDA r : r.Geneid = gene)

\* std.fillna(0)
FillNa0(v) == IF IsNaN(v) THEN IntF(0) ELSE v

\* y_mean + std.fillna(0) and y_mean - std.fillna(0), as terms
Upper(row) ==
    IF IsNaN(row.mean) THEN NaN
    ELSE [k |-> "add", a |-> row.mean, b |-> FillNa0(row.std)]

Lower(row) ==
    IF IsNaN(row.mean) THEN NaN
    ELSE [k |-> "sub", a |-> row.mean, b |-> FillNa0(row.std)]

RibbonName(gene) == [gene |-> gene, suffix |-> "_ribbon"]
LineName(gene) == [gene |-> gene, suffix |-> ""]

\* the ribbon of the i-th gene (i from 0): x then x reversed, upper then
\* lower reversed
RibbonTrace(rows, gene, i) ==
    LET gs == GeneStats(rows, gene)
        x == [j \in 1..Len(gs) |-> gs[j].Condition]
        y_upper == [j \in 1..Len(gs) |-> Upper(gs[j])]
        y_lower == [j \in 1..Len(gs) |-> Lower(gs[j])]
    IN  [name |-> RibbonName(gene), x |-> x \o Reverse(x),
         y |-> y_upper \o Reverse(y_lower), fill |-> "toself",
         mode |-> "", visible |-> (i = 0)]

\* a bug: every mean line starts visible
LineTraceVisible(rows, gene, i) ==
    LET gs == GeneStats(rows, gene)
    IN  [name |-> LineName(gene), x |-> [j \in 1..Len(gs) |-> gs[j].Condition],
         y |-> [j \in 1..Len(gs) |-> gs[j].mean], fill |-> "",
         mode |-> "lines+markers", visible |-> TRUE]

\* the mean line of the i-th gene
LineTrace(rows, gene, i) ==
    LET gs == GeneStats(rows, gene)
    IN  [name |-> LineName(gene), x |-> [j \in 1..Len(gs) |-> gs[j].Condition],
         y |-> [j \in 1..Len(gs) |-> gs[j].mean], fill |-> "",
         mode |-> "lines+markers", visible |-> (i = 0)]

\* the loop of lines 65-99: per displayed gene, its ribbon and then its line
Traces(rows, genes) ==
    Force([t \in 1..(2 * Len(genes)) |->
        IF t % 2 = 1 THEN RibbonTrace(rows, genes[(t + 1) \div 2], (t - 1) \div 2)
        ELSE LineTrace(rows, genes[t \div 2], (t - 2) \div 2)])

\* f"Mean Expression Profile for {gene} (± SD)", the sign written +/-
Title(gene) ==
    [prefix |-> "Mean Expression Profile for ", gene |-> gene, suffix |-> " (+/- SD)"]

\* a bug: the index is not scaled by the traces per gene
StartIdxUnscaled(i) == i

\* start_idx = i * num_traces_per_gene
StartIdx(i) == i * num_traces_per_gene

\* visibility[start_idx] = True; visibility[start_idx + 1] = True raises
\* IndexError when an index is not below total_traces
VisibilityRaises(i, total_traces) == StartIdx(i) + 1 >= total_traces

\* [False] * total_traces with the two entries set; index k of the list is
\* entry k + 1 of the sequence
Visibility(i, total_traces) ==
    [[k \in 1..total_traces |-> FALSE]
        EXCEPT ![StartIdx(i) + 1] = TRUE, ![StartIdx(i) + 2] = TRUE]

\* the button of the i-th gene (i from 0)
Button(gene, i, total_traces) ==
    [label |-> gene, method |-> "update",
     visible |-> Visibility(i, total_traces), title |-> Title(gene)]

Buttons(genes, total_traces) ==
    Force([b \in 1..Len(genes) |-> Button(genes[b], b - 1, total_traces)])

\* the arguments of fig.update_layout
Layout(bs, first_gene) ==
    [updatemenus |-> <<[buttons |-> bs, direction |-> "down", showactive |-> TRUE]>>,
     title |-> Title(first_gene),
     xaxis_title |-> "Days (Condition)", yaxis_title |-> "log2(TPM + 1)",
     template |-> "plotly_white", hovermode |-> "x unified"]

(***************************************************************************)
(* The inputs.                                                             *)
(***************************************************************************)
\* a row of the matrix: Geneid, Chr, Start, End, Strand, Length, the counts
\* (Chr, Start, End and Strand are never read)
Row(geneid, length, counts) == <<geneid, 0, 0, 0, 0, length>> \o counts

Matrix(samples, rows) == [columns |-> MetaColumns \o samples, rows |-> rows]

\* the file: its leading '#' line and the tab-separated table under it
FileOf(frame) == [comment |-> "# Program:featureCounts", table |-> frame]

\* pd.read_csv(input_file, sep='\t', comment='#'): the '#' line is dropped
read_csv(f) == f.table

\* the sample columns of the matrices the pipeline is run on
SampleLists ==
    {<<"d7_a">>, <<"x_r">>,
     <<"d11_a", "d7_a">>, <<"d7_a", "d7_b">>, <<"d04", "d7_a">>,
     <<"d7_a", "r2d11_a_b">>, <<"x_r", "d7_a">>,
     <<"d11_a", "d7_b", "d7_a">>}

\* the rows of the small matrices: ids that may repeat, counts 0 or 1
SmallRows(samples) ==
    {Row(g, 1, counts) : g \in 1..MaxGenes, counts \in [1..Len(samples) -> {0, 1}]}

\* matrices around the display limit: n rows with the ids n, n-1, ..., 1, or
\* with the id 1 twice
LargeMatrix(n, repeat) ==
    Matrix(<<"d04", "d7_a">>,
           [r \in 1..n |-> Row(IF repeat /\ r = 1 THEN 1 ELSE n + 1 - r, 1, <<1, 1>>)])

LargeMatrices ==
    {LargeMatrix(num_to_show, FALSE), LargeMatrix(num_to_show + 1, FALSE),
     LargeMatrix(num_to_show + 1, TRUE), LargeMatrix(num_to_show + 2, FALSE)}

\* the rows of the matrices for calculate_log2_tpm: lengths 0..MaxLength,
\* counts 0..MaxCount
TpmRows(samples) ==
    {Row(0, l, counts) : l \in 0..MaxLength, counts \in [1..Len(samples) -> 0..MaxCount]}

TpmSampleLists == {<<"d7_a">>, <<"d7_a", "d11_a">>}

\* the gene ids 1, 2, ... are given to the rows in order
Numbered(rows) == [r \in 1..Len(rows) |-> <<r>> \o Tail(rows[r])]

(***************************************************************************)
(* The program.                                                            *)
(***************************************************************************)
\* the statements of generate_html_dashboard in the order of the source
Order ==
    <<"load", "tpm", "melt", "aggregate", "sort", "traces", "buttons", "layout",
      "plot", "print_done", "exit">>

\* a bug: the figure is never written
SuccSkipPlot(p) ==
    IF p = "layout" THEN "print_done"
    ELSE Order[1 + CHOOSE i \in 1..Len(Order) : Order[i] = p]

\* the statement after statement p
Succ(p) == Order[1 + CHOOSE i \in 1..Len(Order) : Order[i] = p]

Printed(msg, arg) == [msg |-> msg, arg |-> arg]

\* the arguments of the running call
input_file == calls[Len(calls)].input_file
output_html == calls[Len(calls)].output_html

\* an uncaught exception ends the program
Raise == pc' = "raised"

\* a bug: the test of the main guard is inverted
MainGuardInverted == ~exists

\* os.path.exists(input_filename)
MainGuard == exists

\* lines 141-148
Main ==
    /\ pc = "main"
    /\ IF MainGuard
       THEN /\ calls' = Append(calls, [input_file |-> input_filename,
                                       output_html |-> output_filename])
            /\ pc' = "load"
            /\ out' = out
       ELSE /\ out' = Append(out, Printed("Error: not found.", input_filename))
            /\ pc' = "exit"
            /\ calls' = calls
    /\ UNCHANGED <<exists, file, steps, df, result_df, tpm, plot_data, stats,
                   unique_genes, fig_data, buttons, layout, html>>

\* lines 35-38
Load ==
    /\ pc = "load"
    /\ out' = Append(out, Printed("Loading", input_file))
    /\ df' = read_csv(file)
    /\ steps' = Append(steps, "load")
    /\ pc' = Succ("load")
    /\ UNCHANGED <<exists, file, calls, result_df, tpm, plot_data, stats,
                   unique_genes, fig_data, buttons, layout, html>>

\* lines 41-42
CalcTpm ==
    /\ pc = "tpm"
    /\ out' = Append(out, Printed("Calculating log2(TPM + 1)", ""))
    /\ tpm' = TpmOf(df)
    /\ result_df' = calculate_log2_tpm(df)
    /\ steps' = Append(steps, "tpm")
    /\ pc' = Succ("tpm")
    /\ UNCHANGED <<exists, file, calls, df, plot_data, stats, unique_genes,
                   fig_data, buttons, layout, html>>

\* lines 45-48
MeltStep ==
    /\ pc = "melt"
    /\ plot_data' = WithCondition(Melt(result_df))
    /\ steps' = Append(steps, "melt")
    /\ pc' = Succ("melt")
    /\ UNCHANGED <<exists, file, calls, out, df, result_df, tpm, stats,
                   unique_genes, fig_data, buttons, layout, html>>

\* lines 51-52
Aggregate ==
    /\ pc = "aggregate"
    /\ out' = Append(out, Printed("Aggregating data by condition", ""))
    /\ stats' = GroupByAgg(plot_data)
    /\ steps' = Append(steps, "aggregate")
    /\ pc' = Succ("aggregate")
    /\ UNCHANGED <<exists, file, calls, df, result_df, tpm, plot_data,
                   unique_genes, fig_data, buttons, layout, html>>

\* lines 56-57
SortStep ==
    /\ pc = "sort"
    /\ IF AsTypeIntRaises([i \in 1..Len(stats) |-> ExtractDay(stats[i].Condition)])
       THEN Raise /\ UNCHANGED <<stats, steps>>
       ELSE /\ stats' = SortValues(WithDay(stats))
            /\ steps' = Append(steps, "sort")
            /\ pc' = Succ("sort")
    /\ UNCHANGED <<exists, file, calls, out, df, result_df, tpm, plot_data,
                   unique_genes, fig_data, buttons, layout, html>>

\* lines 59-99
BuildTraces ==
    /\ pc = "traces"
    /\ out' = Append(out, Printed("Generating Interactive Ribbon Plots", ""))
    /\ unique_genes' = UniqueGenes(stats)
    /\ fig_data' = Traces(stats, ShownGenes(unique_genes'))
    /\ steps' = Append(steps, "traces")
    /\ pc' = Succ("traces")
    /\ UNCHANGED <<exists, file, calls, df, result_df, tpm, plot_data, stats,
                   buttons, layout, html>>

\* lines 103-119
BuildButtons ==
    /\ pc = "buttons"
    /\ LET genes == ShownGenes(unique_genes)
           total_traces == Len(fig_data)
       IN  IF \E b \in 1..Len(genes) : VisibilityRaises(b - 1, total_traces)
           THEN Raise /\ UNCHANGED <<buttons, steps>>
           ELSE /\ buttons' = Buttons(genes, total_traces)
                /\ steps' = Append(steps, "buttons")
                /\ pc' = Succ("buttons")
    /\ UNCHANGED <<exists, file, calls, out, df, result_df, tpm, plot_data, stats,
                   unique_genes, fig_data, layout, html>>

\* lines 121-135: unique_genes[0] raises IndexError when there is no gene
UpdateLayout ==
    /\ pc = "layout"
    /\ IF unique_genes = <<>>
       THEN Raise /\ UNCHANGED <<layout, steps>>
       ELSE /\ layout' = Layout(buttons, unique_genes[1])
            /\ steps' = Append(steps, "layout")
            /\ pc' = Succ("layout")
    /\ UNCHANGED <<exists, file, calls, out, df, result_df, tpm, plot_data, stats,
                   unique_genes, fig_data, buttons, html>>

\* line 138
Plot ==
    /\ pc = "plot"
    /\ html' = Append(html, [filename |-> output_html,
                             figure |-> [data |-> fig_data, layout |-> layout]])
    /\ steps' = Append(steps, "plot")
    /\ pc' = Succ("plot")
    /\ UNCHANGED <<exists, file, calls, out, df, result_df, tpm, plot_data, stats,
                   unique_genes, fig_data, buttons, layout>>

\* line 139
PrintDone ==
    /\ pc = "print_done"
    /\ out' = Append(out, Printed("Done! Dashboard saved to", output_html))
    /\ steps' = Append(steps, "print_done")
    /\ pc' = Succ("print_done")
    /\ UNCHANGED <<exists, file, calls, df, result_df, tpm, plot_data, stats,
                   unique_genes, fig_data, buttons, layout, html>>

Blank ==
    /\ calls = <<>> /\ out = <<>> /\ steps = <<>> /\ html = <<>>
    /\ df = None /\ result_df = None /\ tpm = None /\ plot_data = <<>>
    /\ stats = <<>> /\ unique_genes = <<>> /\ fig_data = <<>> /\ buttons = <<>>
    /\ layout = None

\* the script is started; the input file exists or not, and holds a small
\* matrix (up to MaxGenes rows) or one around the display limit
Init ==
    /\ pc = "main"
    /\ exists \in BOOLEAN
    /\ IF exists
       THEN \/ \E samples \in SampleLists : \E n \in 0..MaxGenes :
                 \E rows \in [1..n -> SmallRows(samples)] :
                    file = FileOf(Matrix(samples, rows))
            \/ \E m \in LargeMatrices : file = FileOf(m)
       ELSE file = None
    /\ Blank

Next ==
    \/ Main \/ Load \/ CalcTpm \/ MeltStep \/ Aggregate \/ SortStep
    \/ BuildTraces \/ BuildButtons \/ UpdateLayout \/ Plot \/ PrintDone

Spec == Init /\ [][Next]_vars

\* the script is started on a matrix for calculate_log2_tpm
InitTpm ==
    /\ pc = "main"
    /\ exists = TRUE
    /\ \E samples \in TpmSampleLists : \E n \in 0..MaxGenes :
          \E rows \in [1..n -> TpmRows(samples)] :
             file = FileOf(Matrix(samples, Numbered(rows)))
    /\ Blank

NextTpm == Main \/ Load \/ CalcTpm

SpecTpm == InitTpm /\ [][NextTpm]_vars

(***************************************************************************)
(* What the claims speak of, read from the input file and the state.       *)
(***************************************************************************)
Ran(step) == step \in Range(steps)

\* the input matrix: its sample names, and per row the id, length and counts
InSamples == SubSeq(file.table.columns, 7, Len(file.table.columns))
InRows == 1..Len(file.table.rows)
InGeneid(r) == file.table.rows[r][1]
InLength(r) == file.table.rows[r][6]
InCount(r, c) == file.table.rows[r][6 + c]

RECURSIVE Product(_)
Product(s) == IF s = <<>> THEN 1 ELSE Head(s) * Product(Tail(s))

RECURSIVE IntSum(_)
IntSum(s) == IF s = <<>> THEN 0 ELSE Head(s) + IntSum(Tail(s))

\* TPM[g, c] = RPK[g, c] / (sum of RPK[., c] / 1e6) with RPK = count /
\* (Length / 1000), for a gene g of positive Length, in integers: an infinite
\* RPK in the column (a count over Length 0) makes the quotient 0, a missing
\* RPK (0 over Length 0) is left out of the sum, and with P the product of
\* the positive lengths and W the sum of count * P / Length the quotient is
\* 1e6 * count[g] * P / (Length[g] * W), undefined (nan) when W is 0
ExpectedTpm(g, c) ==
    LET finite == SelectSeq([r \in InRows |-> r], LAMBDA r : InLength(r) > 0)
        P == Product([i \in 1..Len(finite) |-> InLength(finite[i])])
        W == IntSum([i \in 1..Len(finite) |->
                        InCount(finite[i], c) * (P \div InLength(finite[i]))])
    IN  IF \E r \in InRows : InLength(r) = 0 /\ InCount(r, c) > 0 THEN IntF(0)
        ELSE IF W = 0 THEN NaN
        ELSE Num(1000000 * InCount(g, c) * P, InLength(g) * W)

TpmFormula ==
    \A g \in InRows : \A c \in 1..Len(InSamples) :
        InLength(g) > 0 => tpm.rows[g][c] = ExpectedTpm(g, c)

ColumnHasCount(c) == \E r \in InRows : InCount(r, c) # 0

RECURSIVE LCM(_)
LCM(s) ==
    IF s = <<>> THEN 1
    ELSE LET l == LCM(Tail(s)) IN (Head(s) \div GCD(Head(s), l)) * l

\* the TPM values of column c are numbers >= 0 and sum to one million (the
\* fractions are added over the least common denominator D)
ColumnSumsToMillion(c) ==
    /\ \A g \in InRows : tpm.rows[g][c].k = "num" /\ tpm.rows[g][c].n >= 0
    /\ LET D == LCM([g \in InRows |-> tpm.rows[g][c].d])
       IN  IntSum([g \in InRows |-> tpm.rows[g][c].n * (D \div tpm.rows[g][c].d)])
             = 1000000 * D

ReturnedColumns ==
    /\ result_df.columns = <<"Geneid">> \o InSamples
    /\ tpm.columns = InSamples
    /\ Len(result_df.rows) = Len(file.table.rows)
    /\ \A r \in InRows : /\ result_df.rows[r][1] = InGeneid(r)
                         /\ Len(result_df.rows[r]) = 1 + Len(InSamples)

\* C1 as stated: calculate_log2_tpm takes columns 6 onward as the counts,
\* computes TPM = RPK / (sum RPK / 1e6) for every gene of positive Length,
\* so that in EVERY sample column with a non-zero count the TPM values are
\* non-negative and sum to exactly one million, and it returns Geneid first
\* and then one column per sample in input order.
C1_Original ==
    Ran("tpm") =>
        /\ TpmFormula
        /\ \A c \in 1..Len(InSamples) : ColumnHasCount(c) => ColumnSumsToMillion(c)
        /\ ReturnedColumns

\* C1 amended: as C1, but the TPM values of a sample column with a non-zero
\* count are non-negative and sum to one million when every gene has a
\* positive Length (a gene of Length 0 makes TPM values of the column nan,
\* or all the others 0).
C1_TpmNormalised ==
    Ran("tpm") =>
        /\ TpmFormula
        /\ (\A r \in InRows : InLength(r) > 0) =>
              \A c \in 1..Len(InSamples) : ColumnHasCount(c) => ColumnSumsToMillion(c)
        /\ ReturnedColumns

\* two genes of different positive lengths, both counted in a column: the
\* TPM values are unequal and sum to a million
C1_Witness ==
    /\ Ran("tpm")
    /\ Len(file.table.rows) = 2
    /\ \A r \in InRows : InLength(r) > 0 /\ InCount(r, 1) > 0
    /\ InLength(1) # InLength(2)
    /\ tpm.rows[1][1] # tpm.rows[2][1]
    /\ ColumnSumsToMillion(1)

\* the indices (from 0) of the entries of a visibility list that are True
TrueIndices(visibility) == {k - 1 : k \in {j \in 1..Len(visibility) : visibility[j]}}

\* trace number t (from 0) of the figure
TraceAt(t) == fig_data[t + 1]

\* C2: button i (from 0), labelled with the i-th displayed gene, has a
\* visibility list as long as the trace list, True at exactly 2*i and 2*i+1;
\* those two traces are the ribbon and the mean line of the button's gene,
\* and the button's title names that gene.
C2_ButtonVisibility ==
    Ran("buttons") =>
        \A b \in 1..Len(buttons) :
            LET i == b - 1
                button == buttons[b]
            IN  /\ button.label = unique_genes[b]
                /\ Len(button.visible) = Len(fig_data)
                /\ TrueIndices(button.visible) = {2 * i, 2 * i + 1}
                /\ TraceAt(2 * i).name = [gene |-> button.label, suffix |-> "_ribbon"]
                /\ TraceAt(2 * i).fill = "toself"
                /\ TraceAt(2 * i + 1).name = [gene |-> button.label, suffix |-> ""]
                /\ TraceAt(2 * i + 1).mode = "lines+markers"
                /\ button.title.gene = button.label

\* the buttons of at least two genes are built
C2_Witness ==
    /\ Ran("buttons")
    /\ Len(buttons) >= 2
    /\ TrueIndices(buttons[2].visible) = {2, 3}

\* the part of a sample name before its first underscore (the whole name
\* when it has none)
PrefixOf(sample) ==
    LET cs == Chars[sample]
        stops == {k \in 1..Len(cs) : cs[k] = "_"} \cup {Len(cs) + 1}
        first == CHOOSE k \in stops : \A j \in stops : k <= j
    IN  SubSeq(cs, 1, first - 1)

\* the log2TPM values of gene id g in the samples of condition cond: the
\* columns in order and, within a column, the rows in order
ValuesOf(g, cond) ==
    LET cols == SelectSeq([c \in 1..Len(InSamples) |-> c],
                          LAMBDA c : PrefixOf(InSamples[c]) = cond)
        rws == SelectSeq([r \in InRows |-> r], LAMBDA r : InGeneid(r) = g)
    IN  Concat([i \in 1..Len(cols) |->
                  [j \in 1..Len(rws) |-> result_df.rows[rws[j]][1 + cols[i]]]])

StatsRowsOf(g, cond) ==
    {i \in 1..Len(stats) : stats[i].Geneid = g /\ stats[i].Condition = cond}

\* every (gene, sample) value lies in exactly one group, and the statistics
\* hold exactly one row per (Geneid, Condition) pair that occurs
GroupsPartition ==
    /\ Len(plot_data) = Len(file.table.rows) * Len(InSamples)
    /\ \A i \in 1..Len(plot_data) :
          plot_data[i].Condition = PrefixOf(plot_data[i].Sample)
    /\ \A r \in InRows : \A c \in 1..Len(InSamples) :
          Cardinality(StatsRowsOf(InGeneid(r), PrefixOf(InSamples[c]))) = 1
    /\ \A i \in 1..Len(stats) :
          \E r \in InRows : \E c \in 1..Len(InSamples) :
             /\ stats[i].Geneid = InGeneid(r)
             /\ stats[i].Condition = PrefixOf(InSamples[c])

\* the mean of all of vs: nan as soon as one of vs is nan
MeanOfAll(vs) ==
    IF \E i \in 1..Len(vs) : vs[i].k = "nan" THEN NaN ELSE [k |-> "mean", of |-> vs]

\* the mean of the values of vs that are not nan, nan when there is none
MeanOfPresent(vs) ==
    LET present == SelectSeq(vs, LAMBDA v : v.k # "nan")
    IN  IF Len(present) = 0 THEN NaN ELSE [k |-> "mean", of |-> present]

\* C3 as stated: the condition of a sample is the part of its name before
\* the first underscore, every (gene, sample) value is in exactly one
\* (Geneid, Condition) group, the statistics hold one row per pair that
\* occurs, and the row's mean is the mean of the log2TPM values of exactly
\* the samples of that gene with that condition prefix.
C3_Original ==
    Ran("aggregate") =>
        /\ GroupsPartition
        /\ \A i \in 1..Len(stats) :
              stats[i].mean = MeanOfAll(ValuesOf(stats[i].Geneid, stats[i].Condition))

\* C3 amended: as C3, but the row's mean is the mean of those of the
\* log2TPM values of exactly these samples that are not nan (the log2TPM of a
\* sample column without any count is nan and is left out of the mean; the
\* mean is nan when nothing is left).
C3_GroupMeans ==
    Ran("aggregate") =>
        /\ GroupsPartition
        /\ \A i \in 1..Len(stats) :
              stats[i].mean = MeanOfPresent(ValuesOf(stats[i].Geneid, stats[i].Condition))

\* a gene with two conditions, one of them the mean of two samples, and a
\* sample name with two underscores
C3_Witness ==
    /\ Ran("aggregate")
    /\ \E i, j \in 1..Len(stats) :
          /\ stats[i].Geneid = stats[j].Geneid
          /\ stats[i].Condition # stats[j].Condition
          /\ stats[i].mean.k = "mean" /\ Len(stats[i].mean.of) = 2
          /\ stats[i].mean.of[1] # stats[i].mean.of[2]

\* the statements of a complete run, in order
FullRun ==
    <<"load", "tpm", "melt", "aggregate", "sort", "traces", "buttons", "layout",
      "plot", "print_done">>

IsPrefix(s, t) == Len(s) <= Len(t) /\ s = SubSeq(t, 1, Len(s))

DonePrinted == \E i \in 1..Len(out) : out[i].msg = "Done! Dashboard saved to"

\* C4: the steps of a run occur in the fixed order load, compute log2 TPM,
\* aggregate, build traces and buttons, write HTML: what has run is always an
\* initial part of that order (no step twice, none before its predecessors);
\* the HTML file is written at most once, and 'Done' is printed only after
\* the HTML file has been written.
C4_LinearPipeline ==
    /\ IsPrefix(steps, FullRun)
    /\ Len(html) <= 1
    /\ Len(html) = 1 <=> Ran("plot")
    /\ DonePrinted => Len(html) = 1 /\ Ran("plot")
    /\ Ran("print_done") <=> DonePrinted

\* a run that went through every step
C4_Witness == pc = "exit" /\ steps = FullRun /\ DonePrinted /\ Len(html) = 1

\* C5 as stated: for every matrix with the six leading columns and at least
\* one sample column (with no gene row, or with a sample name without a digit
\* before its first underscore, too) a call of generate_html_dashboard ends
\* having written the HTML file.
C5_AlwaysEmitsHtml ==
    (calls # <<>> /\ pc \in {"exit", "raised"}) => Len(html) = 1

\* C6: when the input file 'sense_read_counts' does not exist the script
\* reports 'not found' and ends without calling generate_html_dashboard, so
\* no step runs and no HTML file is written; when it exists,
\* generate_html_dashboard is called exactly once, with output
\* 'expression_dashboard.html'.
C6_MainGuard ==
    /\ pc = "main" => calls = <<>> /\ out = <<>>
    /\ (~exists /\ pc # "main") =>
          /\ pc = "exit"
          /\ out = <<[msg |-> "Error: not found.", arg |-> "sense_read_counts"]>>
    /\ ~exists => calls = <<>> /\ steps = <<>> /\ html = <<>>
    /\ (exists /\ pc # "main") =>
          calls = <<[input_file |-> "sense_read_counts",
                     output_html |-> "expression_dashboard.html"]>>
    /\ \A i \in 1..Len(html) : html[i].filename = "expression_dashboard.html"

\* the script has ended on a missing file
C6_Witness == ~exists /\ pc = "exit" /\ Len(out) = 1 /\ calls = <<>>

\* the integer value of the first run of digits of a condition name, -1 when
\* the name holds no digit
RECURSIVE Power10(_)
Power10(e) == IF e = 0 THEN 1 ELSE 10 * Power10(e - 1)

DayNumber(cond) ==
    LET digits == {k \in 1..Len(cond) : cond[k] \in {"0", "1", "2", "3", "4", "5", "6", "7", "8", "9"}}
    IN  IF digits = {} THEN -1
        ELSE LET lo == CHOOSE k \in digits : \A j \in digits : k <= j
                 run == {k \in digits : \A j \in lo..k : j \in digits}
                 hi == CHOOSE k \in run : \A j \in run : j <= k
                 val(k) == CHOOSE v \in 0..9 : Digits[v + 1] = cond[k]
             IN  IntSum([i \in 1..(hi - lo + 1) |-> val(lo + i - 1) * Power10(hi - lo + 1 - i)])

NonDecreasingDays(conds) ==
    \A i \in 1..(Len(conds) - 1) : DayNumber(conds[i]) <= DayNumber(conds[i + 1])

\* C7: the points of every gene's mean line are in non-decreasing order of
\* the day number, the integer value of the first run of digits of the
\* condition name (numeric, so d7 before d11); the statistics rows are ordered
\* by Geneid and then by day number.
C7_DayOrder ==
    /\ Ran("sort") =>
          \A i \in 1..(Len(stats) - 1) :
             \/ stats[i].Geneid < stats[i + 1].Geneid
             \/ /\ stats[i].Geneid = stats[i + 1].Geneid
                /\ DayNumber(stats[i].Condition) <= DayNumber(stats[i + 1].Condition)
    /\ Ran("sort") => \A i \in 1..Len(stats) : stats[i].Day = DayNumber(stats[i].Condition)
    /\ Ran("traces") =>
          \A t \in 1..Len(fig_data) :
             fig_data[t].mode = "lines+markers" => NonDecreasingDays(fig_data[t].x)

\* a mean line through d7 and then d11, and one whose first condition holds
\* two runs of digits
C7_Witness ==
    /\ Ran("traces")
    /\ \E t \in 1..Len(fig_data) :
          /\ fig_data[t].mode = "lines+markers"
          /\ fig_data[t].x = <<<<"d", "7">>, <<"d", "1", "1">>>>

\* the distinct gene ids of the input
InGeneids == {InGeneid(r) : r \in InRows}

\* genes is the sequence of the first n distinct gene ids in sorted order:
\* n ids of the input, increasing, and every id left out is above them all
FirstSorted(genes, n) ==
    /\ Len(genes) = n
    /\ \A i \in 1..n : genes[i] \in InGeneids
    /\ \A i \in 1..(n - 1) : genes[i] < genes[i + 1]
    /\ \A g \in InGeneids \ Range(genes) : \A i \in 1..n : genes[i] < g

\* C8: with G distinct gene ids the figure holds 2*min(G, 200) traces and the
\* dropdown min(G, 200) buttons; the genes displayed are the first
\* min(G, 200) distinct ids in sorted order, trace 2*i is the ribbon of the
\* i-th and trace 2*i+1 its mean line, and no index written into a
\* visibility list is outside the trace list.
C8_DisplayLimit ==
    LET G == Cardinality(InGeneids)
        shown == IF G <= 200 THEN G ELSE 200
    IN  /\ Ran("traces") =>
              /\ Len(fig_data) = 2 * shown
              /\ FirstSorted([i \in 1..shown |-> TraceAt(2 * (i - 1)).name.gene], shown)
              /\ \A i \in 0..(shown - 1) :
                    /\ TraceAt(2 * i).name.suffix = "_ribbon"
                    /\ TraceAt(2 * i).fill = "toself"
                    /\ TraceAt(2 * i + 1).name =
                          [gene |-> TraceAt(2 * i).name.gene, suffix |-> ""]
                    /\ TraceAt(2 * i + 1).mode = "lines+markers"
        /\ Ran("buttons") =>
              /\ Len(buttons) = shown
              /\ FirstSorted([b \in 1..Len(buttons) |-> buttons[b].label], shown)
              /\ \A b \in 1..Len(buttons) :
                    /\ \A k \in TrueIndices(buttons[b].visible) : k < Len(fig_data)
                    /\ Cardinality(TrueIndices(buttons[b].visible)) = 2
        \* the loop of the buttons never raises IndexError
        /\ (pc = "raised" /\ steps # <<>>) => steps[Len(steps)] # "traces"

\* more genes than are displayed
C8_Witness ==
    /\ Ran("buttons")
    /\ Cardinality(InGeneids) > 200
    /\ Len(buttons) = 200 /\ Len(fig_data) = 400

\* C9: before any selection the dashboard is in the state that pressing the
\* first button produces: exactly the traces 0 and 1, those of the first
\* displayed gene, are visible, and the title names that gene.
C9_InitialState ==
    Ran("layout") =>
        /\ [t \in 1..Len(fig_data) |-> fig_data[t].visible] = buttons[1].visible
        /\ {t \in 0..(Len(fig_data) - 1) : TraceAt(t).visible} = {0, 1}
        /\ layout.title = buttons[1].title
        /\ layout.title.gene = TraceAt(0).name.gene
        /\ layout.title.gene = TraceAt(1).name.gene
        /\ layout.title.gene = unique_genes[1]
        /\ layout.updatemenus[1].buttons = buttons

\* a dashboard of at least two genes
C9_Witness == Ran("layout") /\ Len(buttons) >= 2 /\ ~TraceAt(2).visible

=============================================================================
